---- MODULE Spec2Model ----
(***************************************************************************)
(* A model of the transaction planner and executor of                      *)
(* app/flatpak-transaction.c: the Op Table (refs hash table + ops list),   *)
(* the request intake (add_install, add_update, add_install_oci), the      *)
(* dependency and related expansion, and the executor (run).               *)
(*                                                                         *)
(* C pointers to FlatpakTransactionOp are indices into `heap`; the GList   *)
(* self->ops is a sequence of such pointers whose head is the list head.   *)
(* The deploy store, the catalog, the OCI registry and the user prompt are *)
(* the environment: the deploy store is state, the catalog is a fixed      *)
(* table, prompts and engine outcomes are drawn per call.                  *)
(***************************************************************************)
EXTENDS Integers, Sequences, FiniteSets, TLC

VARIABLES
  cfg,          \* self->no_pull, no_deploy, add_deps, add_related
  isUser,       \* flatpak_dir_is_user (self->dir)
  deployed,     \* deploy data of self->dir: ref -> origin remote, or NULL
  sysDeployed,  \* refs deployed in flatpak_dir_get_system () (user dir only)
  ociRemotes,   \* origin remotes created by add_install_oci
  refs,         \* self->refs: ref -> op pointer
  ops,          \* self->ops: GList of op pointers, head first
  heap,         \* the allocated FlatpakTransactionOp structs
  calls,        \* history: the subpaths of every add_op call, per ref
  depOf,        \* history: <<runtime, ref>> for each op add_deps created
  relLog,       \* history: the <<remote, ref>> of every related lookup
  last,         \* the call that just returned: its inputs and its result
  disp,         \* the dispatches of the run, in order
  nReq,         \* number of add_* requests made so far
  nRun,         \* number of calls of run made so far
  phase         \* "planning" until run has been called, then "done"

vars == <<cfg, isUser, deployed, sysDeployed, ociRemotes, refs, ops, heap,
          calls, depOf, relLog, last, disp, nReq, nRun, phase>>

\* ------------------------------------------------------------------ bounds

\* The number of add_* requests made on one transaction.
MaxRequests == 2

\* The number of ops the deploy engine fails in one run.
MaxFailures == 2

\* The number of calls of run on one transaction that is used again.
MaxRuns == 2

\* ------------------------------------------------------------- C values

\* The NULL pointer of a char * (remote, commit, origin, runtime_ref, error).
NULL == "NULL"

\* A char ** subpaths: the NULL pointer, or a NULL-terminated vector.
NullSubpaths == [isnull |-> TRUE, v |-> <<>>]

StrV(v) == [isnull |-> FALSE, v |-> v]

\* const char *all_paths[] = { NULL };
all_paths == StrV(<<>>)

\* A ref "kind/pref": the kind is the segment before the first '/'.
MkRef(kind, pref) == [kind |-> kind, pref |-> pref]

AppA  == MkRef("app", "A")
RtY   == MkRef("runtime", "Y")
RelAL == MkRef("runtime", "A.Locale")
RelAD == MkRef("runtime", "A.Debug")
RelYL == MkRef("runtime", "Y.Locale")

AllRefs == {AppA, RtY, RelAL, RelAD, RelYL}

\* The refs a caller names in add_install and add_update.
ReqRefs == {AppA, RelAL}

\* The remotes a caller names in add_install; "r3" is only an origin.
ReqRemotes == {"r1", "r2"}

\* The subpaths a caller passes to add_update, and to add_install (which
\* reads NULL as all_paths).
SubpathInputs == {NullSubpaths, all_paths, StrV(<<"b">>)}

InstallSubpaths == {NullSubpaths, StrV(<<"b">>)}

CommitInputs == {"c1"}

\* ---------------------------------------------------------------- catalog

\* The remotes the catalog marks disabled.
DisabledRemotes == {"r3"}

\* flatpak_dir_get_remote_disabled
RemoteDisabled_never(remote) == FALSE

RemoteDisabled(remote) == remote \in DisabledRemotes

\* flatpak_dir_fetch_ref_cache + the parsed [Application] runtime= key:
\* "r1" has no ref cache, an OCI origin remote has none either; the others
\* hold metadata of app/A declaring runtime Y.  NULL: no cache or no key.
FetchRuntimeKey(remote, ref) ==
  IF remote \in {"r2", "r3"} /\ ref = AppA THEN "Y" ELSE NULL

\* What flatpak_dir_search_for_dependency may return for a runtime.
SearchResults == {<<>>, <<"r2">>, <<"r1", "r2">>}

Rel(ref, subpaths, download) ==
  [ref |-> ref, subpaths |-> subpaths, download |-> download]

RelatedIndex(ref) ==
  IF ref = AppA THEN <<Rel(RelAL, StrV(<<"a">>), TRUE), Rel(RelAD, NullSubpaths, FALSE)>>
  ELSE IF ref = RtY THEN <<Rel(RelYL, NullSubpaths, TRUE)>>
  ELSE <<>>

\* flatpak_dir_find_remote_related: the lookup fails on "r1" (NULL + error).
FindRemoteRelated(ref, remote) ==
  IF remote = "r1" THEN [ok |-> FALSE, related |-> <<>>]
  ELSE [ok |-> TRUE, related |-> RelatedIndex(ref)]

\* flatpak_dir_find_local_related: the local index never fails.
FindLocalRelated(ref, remote) == [ok |-> TRUE, related |-> RelatedIndex(ref)]

\* ----------------------------------------------------------- deploy store

\* A FlatpakDir: its deploy table (ref -> origin or NULL) and its scope.
Dir(dep, user) == [dep |-> dep, user |-> user]

\* self->dir
SelfDir == Dir(deployed, isUser)

\* flatpak_dir_get_if_deployed (dir, ref) != NULL
IsDeployedIn(dir, ref) == dir.dep[ref] # NULL

\* ref_is_installed: the dir itself, or the system dir when dir is a user dir.
ref_is_installed_own_only(dir, ref) == IsDeployedIn(dir, ref)

ref_is_installed(dir, ref) ==
  IF IsDeployedIn(dir, ref) THEN TRUE
  ELSE IF dir.user THEN ref \in sysDeployed
  ELSE FALSE

\* dir_ref_is_installed: the deploy data of the dir alone.
dir_ref_is_installed_any_scope(dir, ref) ==
  dir.dep[ref] # NULL \/ (dir.user /\ ref \in sysDeployed)

dir_ref_is_installed(dir, ref) == dir.dep[ref] # NULL

\* dir_ref_is_installed's remote_out: flatpak_deploy_data_get_origin.
deploy_origin(dir, ref) == dir.dep[ref]

\* --------------------------------------------------------------- Op Table

\* The transaction's mutable state threaded through the handlers.
Txn == [refs |-> refs, ops |-> ops, heap |-> heap, calls |-> calls,
        depOf |-> depOf, relLog |-> relLog]

\* flatpak_transaction_operation_new: g_new0 leaves non_fatal FALSE.
flatpak_transaction_operation_new(remote, ref, subpaths, commit, install, update) ==
  [remote |-> remote, ref |-> ref, subpaths |-> subpaths, commit |-> commit,
   update |-> update, install |-> install, non_fatal |-> FALSE]

\* flatpak_transaction_contains_ref
flatpak_transaction_contains_ref(t, ref) == ref \in DOMAIN t.refs

\* The merge of add_op on an existing op: subpaths are overridden only when
\* the op has a non-empty vector and the call passes a non-NULL one.
MergeSubpaths_always(old, new) == IF new.isnull THEN old ELSE new

MergeSubpaths_narrowing(old, new) ==
  IF ~old.isnull /\ ~new.isnull THEN new ELSE old

MergeSubpaths(old, new) ==
  IF ~old.isnull /\ old.v # <<>> /\ ~new.isnull THEN new ELSE old

\* The insertion of a new op: hash table insert + g_list_prepend.
InsertOp_no_map(t, ref, op) ==
  LET p == Len(t.heap) + 1 IN
  [t EXCEPT !.heap = Append(@, op),
            !.ops = <<p>> \o @]

InsertOp(t, ref, op) ==
  LET p == Len(t.heap) + 1 IN
  [t EXCEPT !.heap = Append(@, op),
            !.refs = (ref :> p) @@ @,
            !.ops = <<p>> \o @]

\* flatpak_transaction_add_op: returns the transaction and the op pointer.
flatpak_transaction_add_op_overwrite(t, remote, ref, subpaths, commit, install, update) ==
  LET t1 == [t EXCEPT !.calls[ref] = Append(@, subpaths)] IN
  IF ref \in DOMAIN t1.refs
  THEN LET p == t1.refs[ref] IN
       [t  |-> [t1 EXCEPT !.heap[p].subpaths = MergeSubpaths(@, subpaths),
                          !.heap[p].remote = remote,
                          !.heap[p].commit = commit,
                          !.heap[p].install = install,
                          !.heap[p].update = update],
        op |-> p]
  ELSE [t  |-> InsertOp(t1, ref,
                 flatpak_transaction_operation_new(remote, ref, subpaths,
                                                   commit, install, update)),
        op |-> Len(t1.heap) + 1]

flatpak_transaction_add_op_no_lookup(t, remote, ref, subpaths, commit, install, update) ==
  LET t1 == [t EXCEPT !.calls[ref] = Append(@, subpaths)] IN
  [t  |-> InsertOp(t1, ref,
            flatpak_transaction_operation_new(remote, ref, subpaths,
                                              commit, install, update)),
   op |-> Len(t1.heap) + 1]

flatpak_transaction_add_op(t, remote, ref, subpaths, commit, install, update) ==
  LET t1 == [t EXCEPT !.calls[ref] = Append(@, subpaths)] IN
  IF ref \in DOMAIN t1.refs
  THEN LET p == t1.refs[ref] IN
       [t  |-> [t1 EXCEPT !.heap[p].subpaths = MergeSubpaths(@, subpaths)],
        op |-> p]
  ELSE [t  |-> InsertOp(t1, ref,
                 flatpak_transaction_operation_new(remote, ref, subpaths,
                                                   commit, install, update)),
        op |-> Len(t1.heap) + 1]

\* -------------------------------------------------------------- Expander

\* A user's answers: to the yes/no prompt, and to the number prompt.
Prompt(yes, num) == [yes |-> yes, num |-> num]

\* ask_for_remote: one remote asks yes/no, several ask for 1..n or 0.
ask_for_remote(remotes, prompt) ==
  LET n_remotes == Len(remotes)
      chosen == IF n_remotes = 1
                THEN (IF prompt.yes THEN 1 ELSE 0)
                ELSE prompt.num
  IN IF chosen = 0 THEN NULL ELSE remotes[chosen]

\* The loop of add_related over the related refs found.
RECURSIVE AddRelatedLoop(_, _, _, _)
AddRelatedLoop(t, remote, related, i) ==
  IF i > Len(related) THEN t
  ELSE LET rel == related[i] IN
       IF ~rel.download THEN AddRelatedLoop(t, remote, related, i + 1)
       ELSE LET r == flatpak_transaction_add_op(t, remote, rel.ref, rel.subpaths,
                                                NULL, TRUE, TRUE)
            IN AddRelatedLoop([r.t EXCEPT !.heap[r.op].non_fatal = TRUE],
                              remote, related, i + 1)

\* add_related: a failed lookup is a warning; the result is always TRUE.
add_related(t, remote, ref) ==
  IF ~cfg.add_related THEN [t |-> t, ok |-> TRUE]
  ELSE LET found == IF cfg.no_pull THEN FindLocalRelated(ref, remote)
                    ELSE FindRemoteRelated(ref, remote)
           t1 == [t EXCEPT !.relLog = @ \cup {<<remote, ref>>}]
       IN IF ~found.ok THEN [t |-> t1, ok |-> TRUE]
          ELSE [t |-> AddRelatedLoop(t1, remote, found.related, 1), ok |-> TRUE]

\* transaction_fetch_runtime_ref: NULL unless ref is an app whose cached
\* metadata has the [Application] runtime key.
transaction_fetch_runtime_ref(remote, ref) ==
  IF ref.kind # "app" THEN NULL ELSE FetchRuntimeKey(remote, ref)

\* The op add_deps creates for a runtime, recorded with the ref that needs it.
AddDepOp(t, remote, runtime, ref, install) ==
  LET r == flatpak_transaction_add_op(t, remote, runtime, NullSubpaths, NULL,
                                      install, TRUE)
  IN [r.t EXCEPT !.depOf = @ \cup {<<runtime, ref>>}]

\* add_deps: returns the transaction, the gboolean result and *error.
add_deps(t, dir, remote, ref, search, prompt) ==
  LET runtime_ref == transaction_fetch_runtime_ref(remote, ref)
      full_runtime_ref == MkRef("runtime", runtime_ref)
  IN
  IF runtime_ref = NULL THEN [t |-> t, ok |-> TRUE, error |-> NULL]
  ELSE
    IF ~flatpak_transaction_contains_ref(t, full_runtime_ref)
    THEN
      IF ~ref_is_installed(dir, full_runtime_ref)
      THEN LET runtime_remote == IF search = <<>> THEN NULL
                                 ELSE ask_for_remote(search, prompt)
           IN IF runtime_remote = NULL
              THEN [t |-> t, ok |-> FALSE, error |-> "MissingRuntime"]
              ELSE LET t1 == AddDepOp(t, runtime_remote, full_runtime_ref, ref, TRUE)
                       r == add_related(t1, runtime_remote, full_runtime_ref)
                   IN [t |-> r.t, ok |-> r.ok, error |-> NULL]
      ELSE
        \* Update if in same dir
        IF dir_ref_is_installed(dir, full_runtime_ref)
        THEN LET runtime_remote == deploy_origin(dir, full_runtime_ref)
                 t1 == AddDepOp(t, runtime_remote, full_runtime_ref, ref, FALSE)
                 r == add_related(t1, runtime_remote, full_runtime_ref)
             IN [t |-> r.t, ok |-> r.ok, error |-> NULL]
        ELSE [t |-> t, ok |-> TRUE, error |-> NULL]
    ELSE [t |-> t, ok |-> TRUE, error |-> NULL]

\* Whether add_deps reaches flatpak_dir_search_for_dependency.
SearchesForDependency(t, dir, remote, ref) ==
  LET runtime_ref == transaction_fetch_runtime_ref(remote, ref)
      full_runtime_ref == MkRef("runtime", runtime_ref)
  IN /\ runtime_ref # NULL
     /\ ~flatpak_transaction_contains_ref(t, full_runtime_ref)
     /\ ~ref_is_installed(dir, full_runtime_ref)

\* --------------------------------------------------------- Request Intake

\* The tail of flatpak_transaction_add_ref, after the precondition checks:
\* the result of add_deps is not looked at, but *error keeps what it set.
AddRefTail(t, dir, remote, ref, subpaths, commit, is_update, search, prompt) ==
  LET d == IF cfg.add_deps THEN add_deps(t, dir, remote, ref, search, prompt)
           ELSE [t |-> t, ok |-> TRUE, error |-> NULL]
      a == flatpak_transaction_add_op(d.t, remote, ref, subpaths, commit,
                                      ~is_update, is_update)
      r == add_related(a.t, remote, ref)
  IN [t |-> r.t, ok |-> r.ok, error |-> d.error]

\* flatpak_transaction_add_ref
flatpak_transaction_add_ref_check_late(t, dir, remote, ref, subpaths, commit, is_update, search, prompt) ==
  LET a == AddRefTail(t, dir, remote, ref, subpaths, commit, is_update,
                      search, prompt)
  IN IF is_update
     THEN IF ~dir_ref_is_installed(dir, ref)
          THEN [t |-> a.t, ok |-> FALSE, error |-> "NotInstalled"]
          ELSE IF RemoteDisabled(deploy_origin(dir, ref))
               THEN [t |-> t, ok |-> TRUE, error |-> NULL]
               ELSE AddRefTail(t, dir, deploy_origin(dir, ref), ref, subpaths,
                               commit, is_update, search, prompt)
     ELSE IF dir_ref_is_installed(dir, ref)
          THEN [t |-> a.t, ok |-> FALSE, error |-> "AlreadyInstalled"]
          ELSE a

flatpak_transaction_add_ref(t, dir, remote, ref, subpaths, commit, is_update, search, prompt) ==
  IF is_update
  THEN IF ~dir_ref_is_installed(dir, ref)
       THEN [t |-> t, ok |-> FALSE, error |-> "NotInstalled"]
       ELSE LET origin == deploy_origin(dir, ref) IN
            IF RemoteDisabled(origin)
            THEN [t |-> t, ok |-> TRUE, error |-> NULL]
            ELSE AddRefTail(t, dir, origin, ref, subpaths, commit, is_update,
                            search, prompt)
  ELSE IF dir_ref_is_installed(dir, ref)
       THEN [t |-> t, ok |-> FALSE, error |-> "AlreadyInstalled"]
       ELSE AddRefTail(t, dir, remote, ref, subpaths, commit, is_update,
                       search, prompt)

\* The remote add_ref hands to add_deps: the origin for an update.
DepsRemote(dir, remote, ref, is_update) ==
  IF is_update THEN deploy_origin(dir, ref) ELSE remote

\* The user's answers that ask_for_remote can tell apart for a search result.
PromptsFor(search) ==
  IF search = <<>> THEN {Prompt(FALSE, 0)}
  ELSE IF Len(search) = 1 THEN {Prompt(y, 0) : y \in BOOLEAN}
  ELSE {Prompt(FALSE, n) : n \in 0..Len(search)}

\* The environment's answers a request may consume: the search result and
\* the user's answer, drawn only when add_deps gets to ask for them.
Answers(t, dir, remote, ref, is_update) ==
  IF /\ cfg.add_deps
     /\ IF is_update
        THEN dir_ref_is_installed(dir, ref) /\ ~RemoteDisabled(deploy_origin(dir, ref))
        ELSE ~dir_ref_is_installed(dir, ref)
     /\ SearchesForDependency(t, dir, DepsRemote(dir, remote, ref, is_update), ref)
  THEN UNION {{[search |-> s, prompt |-> p] : p \in PromptsFor(s)} : s \in SearchResults}
  ELSE {[search |-> <<>>, prompt |-> Prompt(FALSE, 0)]}

NoRef == MkRef("none", "none")

NoAnswer == [search |-> <<>>, prompt |-> Prompt(FALSE, 0)]

\* The record of a call: what it was given and what it returned.
Call(call, remote, ref, subpaths, ans, oci, stop, ret, error) ==
  [call |-> call, remote |-> remote, ref |-> ref, subpaths |-> subpaths,
   search |-> ans.search, prompt |-> ans.prompt,
   oci |-> oci, stop |-> stop, ret |-> ret, error |-> error]

\* The transaction state a handler leaves behind.
Leave(t) ==
  /\ refs' = t.refs
  /\ ops' = t.ops
  /\ heap' = t.heap
  /\ calls' = t.calls
  /\ depOf' = t.depOf
  /\ relLog' = t.relLog

\* flatpak_transaction_add_install
AddInstall(remote, ref, subpaths) ==
  /\ phase = "planning"
  /\ nReq < MaxRequests
  /\ \E ans \in Answers(Txn, SelfDir, remote, ref, FALSE) :
       \E r \in {flatpak_transaction_add_ref(Txn, SelfDir, remote, ref,
                  IF subpaths.isnull THEN all_paths ELSE subpaths,
                  NULL, FALSE, ans.search, ans.prompt)} :
          /\ Leave(r.t)
          /\ last' = Call("add_install", remote, ref, subpaths, ans,
                          "none", FALSE, r.ok, r.error)
  /\ nReq' = nReq + 1
  /\ UNCHANGED <<cfg, isUser, deployed, sysDeployed, ociRemotes, disp, nRun, phase>>

\* flatpak_transaction_add_update
AddUpdate(ref, subpaths, commit) ==
  /\ phase = "planning"
  /\ nReq < MaxRequests
  /\ \E ans \in Answers(Txn, SelfDir, NULL, ref, TRUE) :
       \E r \in {flatpak_transaction_add_ref(Txn, SelfDir, NULL, ref, subpaths,
                                           commit, TRUE, ans.search, ans.prompt)} :
          /\ Leave(r.t)
          /\ last' = Call("add_update", NULL, ref, subpaths, ans,
                          "none", FALSE, r.ok, r.error)
  /\ nReq' = nReq + 1
  /\ UNCHANGED <<cfg, isUser, deployed, sysDeployed, ociRemotes, disp, nRun, phase>>

\* What the registry, the manifest and the catalog may answer to
\* add_install_oci, in the order the handler asks.
OciOutcomes == {"registry", "noref", "recreate_repo", "ok"}

\* The ref and checksum of the image's commit annotations.
OciRef == AppA

OciChecksum == "deadbeef"

\* id = g_strdup_printf ("oci-%s", parts[1])
OciRemote(ref) == "oci-" \o ref.pref

\* flatpak_transaction_add_install_oci
AddInstallOci(oci) ==
  /\ phase = "planning"
  /\ nReq < MaxRequests
  /\ nReq' = nReq + 1
  /\ UNCHANGED <<cfg, isUser, deployed, sysDeployed, disp, nRun, phase>>
  /\ IF oci \in {"registry", "noref"}
     THEN /\ last' = Call("add_install_oci", NULL, NoRef, NullSubpaths, NoAnswer, oci, FALSE, FALSE,
                          IF oci = "noref" THEN "InvalidOciImage" ELSE oci)
          /\ UNCHANGED <<ociRemotes, refs, ops, heap, calls, depOf, relLog>>
     ELSE /\ ociRemotes' = ociRemotes \cup {OciRemote(OciRef)}
          /\ IF oci = "recreate_repo"
             THEN /\ last' = Call("add_install_oci", NULL, NoRef, NullSubpaths, NoAnswer, oci, FALSE, FALSE, oci)
                  /\ UNCHANGED <<refs, ops, heap, calls, depOf, relLog>>
             ELSE \E ans \in Answers(Txn, SelfDir, OciRemote(OciRef), OciRef, FALSE) :
                    \E r \in {flatpak_transaction_add_ref(Txn, SelfDir,
                               OciRemote(OciRef), OciRef, all_paths, OciChecksum,
                               FALSE, ans.search, ans.prompt)} :
                       /\ Leave(r.t)
                       /\ last' = Call("add_install_oci", OciRemote(OciRef),
                                       OciRef, all_paths, ans, oci,
                                       FALSE, r.ok, r.error)

\* --------------------------------------------------------------- Executor

\* What flatpak_dir_install and flatpak_dir_update may answer.
EngineOutcomes == {"ok", "AlreadyInstalled", "DeployError"}

\* g_list_reverse
g_list_reverse_none(l) == l

RECURSIVE g_list_reverse(_)
g_list_reverse(l) ==
  IF l = <<>> THEN <<>> ELSE Append(g_list_reverse(Tail(l)), Head(l))

\* The flag resolution of run: an op with both flags keeps the one that
\* matches the deploy state.
ResolveFlags_keep_install(op, installed) ==
  IF op.install /\ op.update THEN [op EXCEPT !.update = FALSE] ELSE op

ResolveFlags(op, installed) ==
  IF op.install /\ op.update
  THEN IF installed THEN [op EXCEPT !.install = FALSE]
       ELSE [op EXCEPT !.update = FALSE]
  ELSE op

\* The deploy table after flatpak_dir_install answered `outcome`.
EngineInstall(dep, op, outcome) ==
  IF outcome = "ok" /\ ~cfg.no_deploy THEN [dep EXCEPT ![op.ref] = op.remote]
  ELSE dep

\* res after the dispatch: a failed update that says AlreadyInstalled is a
\* noop update and counts as done.
DispatchResult_no_noop(op, outcome) == outcome = "ok"

DispatchResult(op, outcome) ==
  IF op.install THEN outcome = "ok"
  ELSE outcome = "ok" \/ outcome = "AlreadyInstalled"

\* What run does with an op whose dispatch failed (!res).
FailurePolicy_abort_all(op, stop_on_first_error) ==
  IF ~stop_on_first_error THEN "record" ELSE "return"

FailurePolicy_ignore_stop(op, stop_on_first_error) ==
  IF op.non_fatal THEN "warn" ELSE "record"

FailurePolicy_always_stop(op, stop_on_first_error) ==
  IF op.non_fatal THEN "warn" ELSE "return"

FailurePolicy(op, stop_on_first_error) ==
  IF op.non_fatal THEN "warn"
  ELSE IF ~stop_on_first_error THEN "record"
  ELSE "return"

\* The state of a run: the op structs, the deploy table, the dispatches so
\* far, `succeeded`, *error, and the value returned once it has returned.
RunState(h, dep, d, succeeded, error, returned, ret) ==
  [heap |-> h, dep |-> dep, disp |-> d, succeeded |-> succeeded,
   error |-> error, returned |-> returned, ret |-> ret]

\* One iteration of the loop of flatpak_transaction_run, on the op at `p`:
\* flag resolution, dispatch, noop update, failure policy.
RunStep(st, p, stop_on_first_error, outcome) ==
  LET was_deployed == dir_ref_is_installed(Dir(st.dep, isUser), st.heap[p].ref)
      op == ResolveFlags(st.heap[p], was_deployed)
      res == DispatchResult(op, outcome)
      dep1 == IF op.install THEN EngineInstall(st.dep, op, outcome) ELSE st.dep
      entry == [op |-> p, ref |-> op.ref, remote |-> op.remote,
                install |-> op.install, update |-> op.update,
                non_fatal |-> op.non_fatal, was_deployed |-> was_deployed,
                outcome |-> outcome]
      st1 == [st EXCEPT !.heap[p] = op, !.dep = dep1, !.disp = Append(@, entry)]
      policy == FailurePolicy(op, stop_on_first_error)
  IN
  IF res \/ policy = "warn" THEN st1
  ELSE IF policy = "record"
  THEN IF st1.succeeded
       THEN [st1 EXCEPT !.succeeded = FALSE,
                        !.error = "One or more operations failed"]
       ELSE st1
  ELSE [st1 EXCEPT !.returned = TRUE, !.ret = FALSE, !.error = outcome]

\* The loop of flatpak_transaction_run over the list from `l` on.
RECURSIVE RunLoop(_, _, _, _)
RunLoop(l, st, stop_on_first_error, outcomes) ==
  IF l = <<>>
  THEN [st EXCEPT !.returned = TRUE, !.ret = st.succeeded]
  ELSE CHOOSE end \in
         {IF st1.returned THEN st1
          ELSE RunLoop(Tail(l), st1, stop_on_first_error, outcomes) :
            st1 \in {RunStep(st, Head(l), stop_on_first_error, outcomes[Head(l)])}} :
         TRUE

\* The engine answers of one run: one per op, at most MaxFailures not "ok".
RunOutcomes ==
  {o \in [1..Len(heap) -> EngineOutcomes] :
     Cardinality({p \in 1..Len(heap) : o[p] # "ok"}) <= MaxFailures}

\* flatpak_transaction_run
Run(stop_on_first_error) ==
  /\ phase = "planning"
  /\ \E outcomes \in RunOutcomes :
       \E st \in {RunLoop(g_list_reverse(ops),
                          RunState(heap, deployed, <<>>, TRUE, NULL, FALSE, FALSE),
                          stop_on_first_error, outcomes)} :
          /\ ops' = g_list_reverse(ops)
          /\ heap' = st.heap
          /\ deployed' = st.dep
          /\ disp' = st.disp
          /\ last' = Call("run", NULL, NoRef, NullSubpaths, NoAnswer,
                          "none", stop_on_first_error, st.ret, st.error)
  /\ phase' = "done"
  /\ nRun' = nRun + 1
  /\ UNCHANGED <<cfg, isUser, sysDeployed, ociRemotes, refs, calls, depOf,
                 relLog, nReq>>

\* ---------------------------------------------------------- specification

\* A deploy table: the origins of app/A, runtime/Y and runtime/A.Locale.
DeployTable(a, y, al) ==
  [r \in AllRefs |-> IF r = AppA THEN a
                     ELSE IF r = RtY THEN y
                     ELSE IF r = RelAL THEN al
                     ELSE NULL]

Store(user, dep, sys) == [user |-> user, dep |-> dep, sys |-> sys]

\* The deploy stores a transaction may be built on: a user dir (with the
\* system dir beside it) or the system dir itself.
Stores ==
  { Store(TRUE,  DeployTable(NULL, NULL, NULL), {}),
    Store(TRUE,  DeployTable(NULL, NULL, NULL), {AppA, RtY}),
    Store(TRUE,  DeployTable("r2", "r2", "r2"), {}),
    Store(TRUE,  DeployTable("r2", "r3", NULL), {}),
    Store(TRUE,  DeployTable("r3", NULL, NULL), {RtY}),
    Store(FALSE, DeployTable(NULL, "r2", NULL), {}) }

Options(no_pull, no_deploy, deps, related) ==
  [no_pull |-> no_pull, no_deploy |-> no_deploy,
   add_deps |-> deps, add_related |-> related]

\* The options a transaction may be built with: every combination of
\* add_deps and add_related; no_pull where only add_related reads it, and
\* no_deploy, which only the deploy engine reads, without expansion.
OptionInputs ==
  {Options(FALSE, FALSE, d, r) : d \in BOOLEAN, r \in BOOLEAN}
    \cup {Options(TRUE, FALSE, FALSE, TRUE), Options(FALSE, TRUE, FALSE, FALSE)}

\* flatpak_transaction_new: an empty Op Table over the given dir and options.
Init ==
  /\ cfg \in OptionInputs
  /\ \E st \in Stores :
       /\ isUser = st.user
       /\ deployed = st.dep
       /\ sysDeployed = st.sys
  /\ ociRemotes = {}
  /\ refs = <<>>
  /\ ops = <<>>
  /\ heap = <<>>
  /\ calls = [r \in AllRefs |-> <<>>]
  /\ depOf = {}
  /\ relLog = {}
  /\ last = Call("new", NULL, NoRef, NullSubpaths, NoAnswer, "none",
                 FALSE, TRUE, NULL)
  /\ disp = <<>>
  /\ nReq = 0
  /\ nRun = 0
  /\ phase = "planning"

Next ==
  \/ \E remote \in ReqRemotes, ref \in ReqRefs, subpaths \in InstallSubpaths :
       AddInstall(remote, ref, subpaths)
  \/ \E ref \in ReqRefs, subpaths \in SubpathInputs, commit \in CommitInputs :
       AddUpdate(ref, subpaths, commit)
  \/ \E oci \in OciOutcomes : AddInstallOci(oci)
  \/ \E stop_on_first_error \in BOOLEAN : Run(stop_on_first_error)

Spec == Init /\ [][Next]_vars

\* ----------------------------------------------------------------- claims

\* The pointers on the list self->ops.
OpsOnList == {ops[i] : i \in 1..Len(ops)}

\* How often the op at `p` is on the list.
TimesOnList(p) == Cardinality({i \in 1..Len(ops) : ops[i] = p})

\* C1: the Op Table holds at most one Op per ref, and the op sequence holds
\* exactly the Ops of the ref map: every Op on the list is the map's entry
\* for its own ref, every map entry is on the list exactly once, and no Op
\* is ever removed (every ref an add_op call named still has its Op, and
\* every Op ever allocated is still the map's entry for its ref).
C1_OpTableConsistent ==
  /\ \A p, q \in 1..Len(heap) : heap[p].ref = heap[q].ref => p = q
  /\ \A i \in 1..Len(ops) :
       /\ heap[ops[i]].ref \in DOMAIN refs
       /\ refs[heap[ops[i]].ref] = ops[i]
  /\ \A r \in DOMAIN refs : TimesOnList(refs[r]) = 1
  /\ \A r \in AllRefs : calls[r] # <<>> => r \in DOMAIN refs
  /\ \A p \in 1..Len(heap) :
       heap[p].ref \in DOMAIN refs /\ refs[heap[p].ref] = p

\* C1 witness: a run has ended on a table of three or more Ops, one of which
\* was named by more than one add_op call.
C1_Witness ==
  /\ phase = "done"
  /\ Len(ops) >= 3
  /\ \E r \in DOMAIN refs : Len(calls[r]) >= 2

\* The app's declared runtime, as add_deps composes it.
DeclaredRuntime(remote, ref) ==
  MkRef("runtime", transaction_fetch_runtime_ref(remote, ref))

\* The step is an add_install of an app that is not deployed, with add_deps
\* on, whose declared runtime is neither in the Op Table nor installed, and
\* no remote provides the runtime or the user declines.
C2_Case ==
  /\ last'.call = "add_install"
  /\ cfg.add_deps
  /\ deployed[last'.ref] = NULL
  /\ transaction_fetch_runtime_ref(last'.remote, last'.ref) # NULL
  /\ DeclaredRuntime(last'.remote, last'.ref) \notin DOMAIN refs
  /\ deployed[DeclaredRuntime(last'.remote, last'.ref)] = NULL
  /\ ~(isUser /\ DeclaredRuntime(last'.remote, last'.ref) \in sysDeployed)
  /\ \/ last'.search = <<>>
     \/ Len(last'.search) = 1 /\ ~last'.prompt.yes
     \/ Len(last'.search) > 1 /\ last'.prompt.num = 0

\* C2: in that case add_install returns failure (MissingRuntime) and the Op
\* Table is the same as before the call.
C2_MissingRuntimeFails ==
  [][C2_Case => /\ ~last'.ret
                /\ last'.error = "MissingRuntime"
                /\ refs' = refs
                /\ ops' = ops
                /\ heap' = heap]_vars

\* The three values of a subpaths argument.
IsAbsent(sp) == sp.isnull

IsUnrestricted(sp) == ~sp.isnull /\ sp.v = <<>>

IsRestricted(sp) == ~sp.isnull /\ sp.v # <<>>

\* The subpaths of the most recent call of history `h` that passed a
\* restricted list.
LastRestricted(h) ==
  h[CHOOSE i \in 1..Len(h) :
      IsRestricted(h[i]) /\ \A j \in (i + 1)..Len(h) : ~IsRestricted(h[j])]

\* The rule of I2 on a call history `h` and the Op's subpaths `final`.
UnrestrictedWins(h, final) ==
  IF \E i \in 1..Len(h) : IsUnrestricted(h[i])
  THEN IsUnrestricted(final)
  ELSE (\E i \in 1..Len(h) : IsRestricted(h[i])) => final = LastRestricted(h)

\* C3 as stated: for the add_op calls that named ref R, the Op's subpaths is
\* the unrestricted value if any call passed unrestricted, otherwise the
\* subpaths of the most recent call that passed a restricted list.
C3_SubpathMonotonicity ==
  \A r \in DOMAIN refs :
    UnrestrictedWins(calls[r], heap[refs[r]].subpaths)

\* C3 amended: the rule holds when the first call for R (the one that created
\* the Op) passed a non-absent subpaths; when the first call passed absent
\* subpaths, the Op's subpaths stays absent whatever the later calls pass.
C3_SubpathMonotonicityFromFirst ==
  \A r \in DOMAIN refs :
    IF IsAbsent(calls[r][1])
    THEN IsAbsent(heap[refs[r]].subpaths)
    ELSE UnrestrictedWins(calls[r], heap[refs[r]].subpaths)

\* C3 witness: an Op created with a restricted list that a later call
\* widened to unrestricted.
C3_Witness ==
  \E r \in DOMAIN refs :
    /\ Len(calls[r]) >= 2
    /\ IsRestricted(calls[r][1])
    /\ IsUnrestricted(calls[r][Len(calls[r])])
    /\ IsUnrestricted(heap[refs[r]].subpaths)

\* The positions of the dispatch log that dispatched ref `r`.
DispatchesOf(r) == {i \in 1..Len(disp) : disp[i].ref = r}

\* C4: for every runtime Op O that dependency expansion added while
\* processing a request for ref R', run dispatches O before the Op of R'.
C4_DependencyBeforeDependent ==
  phase = "done" =>
    \A d \in depOf :
      \A j \in DispatchesOf(d[2]) :
        \E i \in DispatchesOf(d[1]) : i < j

\* A dispatch that failed: the engine did not answer "ok", and it is not an
\* update that answered AlreadyInstalled.
Failed(e) ==
  e.outcome # "ok" /\ ~(e.update /\ e.outcome = "AlreadyInstalled")

FatalFailures == {i \in 1..Len(disp) : Failed(disp[i]) /\ ~disp[i].non_fatal}

NonFatalFailures == {i \in 1..Len(disp) : Failed(disp[i]) /\ disp[i].non_fatal}

\* C5: run returns success if and only if no Op with non_fatal = false
\* failed during the run, under either value of stop_on_first_error.
C5_RunSucceedsIffNoFatalFailure ==
  last.call = "run" => (last.ret <=> FatalFailures = {})

\* C5 witness: a run in which a non_fatal Op failed and that returned success.
C5_Witness ==
  /\ last.call = "run"
  /\ NonFatalFailures # {}
  /\ last.ret

\* The dispatch log follows the op sequence from its first Op on (after the
\* run self->ops is in insertion order).
DispatchedInOrder ==
  /\ Len(disp) <= Len(ops)
  /\ \A i \in 1..Len(disp) : disp[i].op = ops[i]

\* C6: with stop_on_first_error = false, a failure of a fatal Op does not
\* stop the run: every Op of the table is dispatched exactly once, and run
\* returns failure with the summary error "One or more operations failed".
C6_BatchModeRunsEveryOp ==
  (last.call = "run" /\ ~last.stop /\ FatalFailures # {}) =>
    /\ \A r \in DOMAIN refs :
         Cardinality({i \in 1..Len(disp) : disp[i].op = refs[r]}) = 1
    /\ Len(disp) = Cardinality(DOMAIN refs)
    /\ ~last.ret
    /\ last.error = "One or more operations failed"

\* C6 witness: a batch run in which two fatal Ops failed, the first of them
\* before the last Op of the table.
C6_Witness ==
  /\ last.call = "run"
  /\ ~last.stop
  /\ Cardinality(FatalFailures) >= 2
  /\ \E i \in FatalFailures : i < Len(disp)

\* C7: with stop_on_first_error = true, the first failure of a fatal Op
\* makes run return failure at once with that Op's own error, and no Op
\* later in the sequence is dispatched; a failure of a non_fatal Op does not
\* stop the run.
C7_SingleShotStopsAtFirstFatal ==
  (last.call = "run" /\ last.stop) =>
    /\ DispatchedInOrder
    /\ \A i \in FatalFailures :
         /\ i = Len(disp)
         /\ ~last.ret
         /\ last.error = disp[i].outcome
    /\ \A i \in NonFatalFailures : i < Len(ops) => Len(disp) > i
    /\ FatalFailures = {} => Len(disp) = Len(ops)

\* C7 witness: a single-shot run in which a non_fatal Op failed, a later
\* fatal Op failed, and an Op after that one was not dispatched.
C7_Witness ==
  /\ last.call = "run"
  /\ last.stop
  /\ \E i \in NonFatalFailures : \E j \in FatalFailures : i < j
  /\ Len(disp) < Len(ops)

\* C8: for every Op run dispatches, at the moment of dispatch exactly one of
\* install and update is true, and it is install iff the ref is not deployed
\* in the transaction's dir at that moment.
C8_FlagsReflectDeployState ==
  \A i \in 1..Len(disp) :
    /\ disp[i].install # disp[i].update
    /\ disp[i].install <=> ~disp[i].was_deployed

\* C8 witness: an Op of related expansion (inserted with both flags) was
\* dispatched as an update of a deployed ref, and another Op as an install.
C8_Witness ==
  /\ \E i \in 1..Len(disp) :
       disp[i].non_fatal /\ disp[i].was_deployed /\ disp[i].update
  /\ \E i \in 1..Len(disp) : disp[i].install

\* C9 as stated: add_install fails with AlreadyInstalled when the ref is
\* deployed in the transaction's own scope or, for a user-scope transaction,
\* in the system scope.
C9_InstallScopeCheck ==
  (/\ last.call = "add_install"
   /\ \/ deployed[last.ref] # NULL
      \/ isUser /\ last.ref \in sysDeployed) =>
    ~last.ret /\ last.error = "AlreadyInstalled"

\* C9 amended: add_install fails with AlreadyInstalled, adding no op, exactly
\* when the ref is deployed in the transaction's own scope; a deployment in
\* the system scope alone does not make a user-scope add_install fail.
C9_InstallChecksOwnScopeOnly ==
  [][last'.call = "add_install" =>
       IF deployed[last'.ref] # NULL
       THEN /\ ~last'.ret
            /\ last'.error = "AlreadyInstalled"
            /\ refs' = refs
            /\ ops' = ops
            /\ heap' = heap
       ELSE /\ last'.error # "AlreadyInstalled"
            /\ last'.ref \in DOMAIN refs']_vars

\* C9 witness: a user-scope add_install of a ref deployed in the system scope
\* only has returned success with the ref's Op in the table.
C9_Witness ==
  /\ last.call = "add_install"
  /\ isUser
  /\ last.ref \in sysDeployed
  /\ deployed[last.ref] = NULL
  /\ last.ret
  /\ last.ref \in DOMAIN refs

\* The related lookups made for ref `r`.
RelatedLookupsOf(log, r) == {x \in log : x[2] = r}

\* C10: in a user-scope transaction with add_deps on, an add_install of an
\* app whose declared runtime is deployed in the system scope only adds no
\* op for the runtime and runs no related expansion for it; the request
\* succeeds and records the op of the app.
C10_ScopeIsolation ==
  [][(/\ last'.call = "add_install"
      /\ isUser
      /\ cfg.add_deps
      /\ deployed[last'.ref] = NULL
      /\ transaction_fetch_runtime_ref(last'.remote, last'.ref) # NULL
      /\ DeclaredRuntime(last'.remote, last'.ref) \in sysDeployed
      /\ deployed[DeclaredRuntime(last'.remote, last'.ref)] = NULL
      /\ DeclaredRuntime(last'.remote, last'.ref) \notin DOMAIN refs) =>
       /\ DeclaredRuntime(last'.remote, last'.ref) \notin DOMAIN refs'
       /\ RelatedLookupsOf(relLog', DeclaredRuntime(last'.remote, last'.ref)) = {}
       /\ last'.ret
       /\ last'.ref \in DOMAIN refs']_vars

\* C10 witness: such an add_install has returned, with related expansion on:
\* the app has its Op and its related lookup, the runtime has neither.
C10_Witness ==
  /\ last.call = "add_install"
  /\ isUser
  /\ cfg.add_deps
  /\ cfg.add_related
  /\ last.ref = AppA
  /\ transaction_fetch_runtime_ref(last.remote, AppA) = "Y"
  /\ RtY \in sysDeployed
  /\ deployed[RtY] = NULL
  /\ last.ret
  /\ AppA \in DOMAIN refs
  /\ RtY \notin DOMAIN refs
  /\ RelatedLookupsOf(relLog, AppA) # {}

\* C11: an add_update of a deployed ref whose origin remote is disabled
\* returns success without an error and leaves the Op Table as it was (no
\* op, no dependency op, no related lookup); a run on an empty table
\* dispatches nothing and returns success.
C11_DisabledRemoteUpdateSkipped ==
  [][/\ (/\ last'.call = "add_update"
         /\ deployed[last'.ref] # NULL
         /\ deployed[last'.ref] \in DisabledRemotes) =>
          /\ last'.ret
          /\ last'.error = NULL
          /\ refs' = refs
          /\ ops' = ops
          /\ heap' = heap
          /\ depOf' = depOf
          /\ relLog' = relLog
     /\ (last'.call = "run" /\ ops = <<>>) =>
          /\ disp' = <<>>
          /\ last'.ret
          /\ deployed' = deployed]_vars

\* C11 witness: with both expansions on, an add_update of a ref deployed from
\* a disabled origin has returned success on a table that is still empty.
C11_Witness ==
  /\ last.call = "add_update"
  /\ deployed[last.ref] # NULL
  /\ deployed[last.ref] \in DisabledRemotes
  /\ cfg.add_deps
  /\ cfg.add_related
  /\ last.ret
  /\ refs = <<>>
  /\ ops = <<>>

\* The step is an add_install that repeats the call that returned just
\* before it: the same remote, ref and subpaths and, where the second call
\* gets to ask for them, the same search result and the same user answer.
C12_RepeatedInstall ==
  /\ last.call = "add_install"
  /\ last'.call = "add_install"
  /\ last'.remote = last.remote
  /\ last'.ref = last.ref
  /\ last'.subpaths = last.subpaths
  /\ (cfg.add_deps /\ SearchesForDependency(Txn, SelfDir, last'.remote, last'.ref)) =>
       (last'.search = last.search /\ last'.prompt = last.prompt)

\* C12: a second add_install with the same arguments, on an unchanged deploy
\* store, catalog and user answers, leaves the Op Table as the first call
\* left it: the same Ops in the same order with the same fields, and the
\* same result.
C12_InstallIdempotent ==
  [][C12_RepeatedInstall => /\ refs' = refs
                            /\ ops' = ops
                            /\ heap' = heap
                            /\ last'.ret = last.ret]_vars

\* C12 witness: the second of two equal add_install calls has returned
\* success on a table that holds the ref's Op, its runtime and a related ref.
C12_Witness ==
  /\ nReq = 2
  /\ last.call = "add_install"
  /\ last.ret
  /\ cfg.add_deps
  /\ cfg.add_related
  /\ last.ref \in DOMAIN refs
  /\ Len(calls[last.ref]) = 2
  /\ calls[last.ref][1] = calls[last.ref][2]
  /\ heap[refs[last.ref]].remote = last.remote
  /\ RtY \in DOMAIN refs
  /\ Len(ops) >= 3

\* The refs of the dispatch log, in dispatch order.
DispatchedRefs == [i \in 1..Len(disp) |-> disp[i].ref]

\* C13: the run dispatches the Ops in the order of their first insertion
\* into the Op Table (the i-th dispatch is the i-th Op allocated); for a
\* single add_install of an app whose runtime dependency expansion added,
\* with related expansion on, that is: the runtime, the runtime's related
\* ref, the app, the app's related ref.
C13_DispatchInInsertionOrder ==
  phase = "done" =>
    /\ \A i \in 1..Len(disp) : disp[i].op = i
    /\ (/\ nReq = 1
        /\ depOf = {<<RtY, AppA>>}
        /\ Len(disp) = 4) =>
         DispatchedRefs = <<RtY, RelYL, AppA, RelAL>>

\* C13 witness: a run has dispatched the four Ops of one add_install of
\* app/A: its runtime, the runtime's related ref, the app and its related ref.
C13_Witness ==
  /\ phase = "done"
  /\ nReq = 1
  /\ depOf = {<<RtY, AppA>>}
  /\ Len(disp) = 4
  /\ heap[3].ref = AppA
  /\ \A i \in 1..4 : disp[i].outcome = "ok"

\* A dispatch the engine answered with AlreadyInstalled.
NoopUpdates == {i \in 1..Len(disp) :
                  disp[i].update /\ disp[i].outcome = "AlreadyInstalled"}

InstallsAlreadyInstalled == {i \in 1..Len(disp) :
                               disp[i].install /\ disp[i].outcome = "AlreadyInstalled"}

\* C14: an update dispatch that fails with AlreadyInstalled counts as
\* succeeded, fatal or not: the run goes on to the next Op under either mode
\* and, when nothing else went wrong, dispatches every Op and returns
\* success.  An install dispatch that fails with AlreadyInstalled gets the
\* ordinary failure policy: a warning if non_fatal, otherwise run returns
\* failure, at once with that error under stop_on_first_error.
C14_NoopUpdateIsSuccess ==
  last.call = "run" =>
    /\ \A i \in NoopUpdates : i < Len(ops) => Len(disp) > i
    /\ (\A i \in 1..Len(disp) : disp[i].outcome = "ok" \/ i \in NoopUpdates) =>
         /\ last.ret
         /\ last.error = NULL
         /\ Len(disp) = Len(ops)
    /\ \A i \in InstallsAlreadyInstalled :
         IF disp[i].non_fatal
         THEN i < Len(ops) => Len(disp) > i
         ELSE /\ ~last.ret
              /\ last.stop => (i = Len(disp) /\ last.error = "AlreadyInstalled")
              /\ ~last.stop => last.error = "One or more operations failed"

\* C14 witness: a single-shot run in which a fatal update answered
\* AlreadyInstalled before the last Op, and which returned success.
C14_Witness ==
  /\ last.call = "run"
  /\ last.stop
  /\ last.ret
  /\ \E i \in NoopUpdates : ~disp[i].non_fatal /\ i < Len(disp)

\* The refs for which the step called add_op although they had an Op.
MergedRefs == {r \in DOMAIN refs : Len(calls'[r]) > Len(calls[r])}

\* C15: in every add_* step, an add_op call for a ref that already has an Op
\* leaves that Op's remote, commit, install and update as they were and
\* returns the same Op; the Ops already on the list keep their places (new
\* Ops only go in front of them), and the list grows by exactly the refs
\* that had no Op, so a call for an existing ref does not change its length.
C15_MergeFrame ==
  [][phase' = "planning" =>
       /\ \A r \in MergedRefs :
            /\ refs'[r] = refs[r]
            /\ heap'[refs[r]].remote = heap[refs[r]].remote
            /\ heap'[refs[r]].commit = heap[refs[r]].commit
            /\ heap'[refs[r]].install = heap[refs[r]].install
            /\ heap'[refs[r]].update = heap[refs[r]].update
       /\ Len(ops') >= Len(ops)
       /\ SubSeq(ops', Len(ops') - Len(ops) + 1, Len(ops')) = ops
       /\ Len(ops') - Len(ops) = Cardinality(DOMAIN refs' \ DOMAIN refs)]_vars

\* C15 witness: an add_install named a ref whose Op related expansion had
\* created from another remote with both flags set; the Op still has that
\* remote and its update flag.
C15_Witness ==
  /\ last.call = "add_install"
  /\ last.ret
  /\ last.ref \in DOMAIN refs
  /\ heap[refs[last.ref]].remote # last.remote
  /\ heap[refs[last.ref]].update
  /\ Len(calls[last.ref]) >= 2

\* C16: an Op whose subpaths is the unrestricted value keeps it through
\* every later step of the transaction (add_install, add_update,
\* add_install_oci with their expansions, and run), whatever subpaths the
\* later calls pass.
C16_UnrestrictedIsNeverNarrowed ==
  [][\A p \in 1..Len(heap) :
       IsUnrestricted(heap[p].subpaths) =>
         /\ p <= Len(heap')
         /\ heap'[p].subpaths = heap[p].subpaths]_vars

\* C16 witness: an Op that got unrestricted subpaths and was later named by a
\* call passing an explicit list still has the unrestricted value.
C16_Witness ==
  \E r \in DOMAIN refs :
    \E i \in 1..Len(calls[r]) :
      /\ IsUnrestricted(calls[r][i])
      /\ \E j \in (i + 1)..Len(calls[r]) : IsRestricted(calls[r][j])
      /\ IsUnrestricted(heap[refs[r]].subpaths)

\* C17: an add_install that fails with AlreadyInstalled and an add_update
\* that fails with NotInstalled leave the transaction as it was: the ref
\* map, the list, the Ops, and the records of add_op calls, dependency ops
\* and related lookups are unchanged, and so are the options, the deploy
\* store and the transaction's lifecycle, so that the calls that follow see
\* the state they would have seen without the failed request.
C17_PreconditionFailureIsFrame ==
  [][(\/ /\ last'.call = "add_install"
         /\ ~last'.ret
         /\ last'.error = "AlreadyInstalled"
      \/ /\ last'.call = "add_update"
         /\ ~last'.ret
         /\ last'.error = "NotInstalled") =>
       UNCHANGED <<refs, ops, heap, calls, depOf, relLog,
                   cfg, isUser, deployed, sysDeployed, ociRemotes, phase>>]_vars

\* C17 witness: with both expansions on and Ops already in the table, an
\* add_update of a ref that is not deployed has failed with NotInstalled.
C17_Witness ==
  /\ last.call = "add_update"
  /\ ~last.ret
  /\ last.error = "NotInstalled"
  /\ deployed[last.ref] = NULL
  /\ cfg.add_deps
  /\ cfg.add_related
  /\ Len(ops) >= 2
  /\ phase = "planning"

\* C18: an Op with non_fatal FALSE keeps it FALSE through every later step,
\* and an Op is created with non_fatal TRUE only if it is neither the Op of
\* the requested ref nor an Op of dependency expansion.
C18_FatalStaysFatal ==
  [][/\ \A p \in 1..Len(heap) : ~heap[p].non_fatal => ~heap'[p].non_fatal
     /\ \A p \in (Len(heap) + 1)..Len(heap') :
          heap'[p].non_fatal =>
            /\ heap'[p].ref # last'.ref
            /\ \A d \in depOf' : d[1] # heap'[p].ref]_vars

\* C19: no Op of the table that is an update only (update TRUE, install
\* FALSE) has a remote the catalog marks disabled, whether add_update or
\* dependency expansion added it.
C19_NoUpdateFromDisabledRemote ==
  \A p \in 1..Len(heap) :
    (heap[p].update /\ ~heap[p].install) => heap[p].remote \notin DisabledRemotes

\* ------------------------------------------------- a transaction used again

\* The caller keeps the transaction after run has returned: nothing in the
\* struct records that run was called, so the add_* functions and run can be
\* called on it again.
Reuse ==
  /\ phase = "done"
  /\ nRun < MaxRuns
  /\ phase' = "planning"
  /\ UNCHANGED <<cfg, isUser, deployed, sysDeployed, ociRemotes, refs, ops,
                 heap, calls, depOf, relLog, last, disp, nReq, nRun>>

NextRerun ==
  \/ Next
  \/ Reuse

\* The lifecycle in which run may be called more than once on a transaction,
\* with or without requests between two runs.
SpecRerun == Init /\ [][NextRerun]_vars

\* C20: every call of run dispatches the Ops in first-insertion order (an Op
\* allocated earlier is dispatched earlier), however many times run has been
\* called on the transaction and whether or not Ops were added in between.
C20_EveryRunInInsertionOrder ==
  phase = "done" =>
    \A i, j \in 1..Len(disp) : i < j => disp[i].op < disp[j].op

====
